---- MODULE Spec2Model ----
(***************************************************************************)
(* A model of the 1brc calculators of src/src/main/go/tmeire/calc.go (the  *)
(* parallel collectData with its bucketed table, and the sequential        *)
(* map[string] baseline that follows it in the same file) and of           *)
(* src/unnamed/part_000 (the single-threaded chunked collectData).         *)
(*                                                                         *)
(* Bytes are their ASCII codes, a []byte is a sequence of them.            *)
(* A uint64 is four 16-bit limbs, least significant first, so that the     *)
(* 64-bit FNV-1a hash of the code is computed exactly.                     *)
(***************************************************************************)
EXTENDS Integers, Sequences, FiniteSets, Bags, TLC

\* ------------------------------------------------------------------ bytes
LF    == 10
SEMI  == 59
MINUS == 45
DOT   == 46
ZERO  == 48

\* byte(a) - byte(b) in Go's uint8 arithmetic
ByteSub(a, b) == (a - b + 256) % 256

\* b[lo:hi] of a Go slice, 0-based, hi exclusive (callers check the bounds)
Slice(b, lo, hi) == [k \in 1..(hi - lo) |-> b[lo + k]]

RECURSIVE XorBits(_, _, _)
XorBits(a, b, n) ==
    IF n = 0 THEN 0
    ELSE (((a % 2) + (b % 2)) % 2) + 2 * XorBits(a \div 2, b \div 2, n - 1)

RECURSIVE AndBits(_, _, _)
AndBits(a, b, n) ==
    IF n = 0 THEN 0
    ELSE ((a % 2) * (b % 2)) + 2 * AndBits(a \div 2, b \div 2, n - 1)

\* ------------------------------------------------------------ hash/fnv 64a
Limb == 2^16

\* 0xcbf29ce484222325, least significant limb first
FnvOffset64 == <<8997, 33826, 40164, 52210>>

\* h * 0x100000001b3 mod 2^64: the prime is 2^40 + 435
FnvMul(h) ==
    LET t0 == h[1] * 435
        t1 == h[2] * 435 + (t0 \div Limb)
        t2 == h[3] * 435 + (t1 \div Limb) + (h[1] % 256) * 256
        t3 == h[4] * 435 + (t2 \div Limb) + (h[2] % 256) * 256 + (h[1] \div 256)
    IN  <<t0 % Limb, t1 % Limb, t2 % Limb, t3 % Limb>>

\* one byte of Write: hash ^= b, then hash *= prime
FnvStep(h, b) ==
    FnvMul(<<(h[1] \div 256) * 256 + XorBits(h[1] % 256, b, 8), h[2], h[3], h[4]>>)

RECURSIVE FnvWrite(_, _, _)
FnvWrite(h, name, k) ==
    IF k > Len(name) THEN h ELSE FnvWrite(FnvStep(h, name[k]), name, k + 1)

\* hasher.Reset(); hasher.Write(name); hasher.Sum64()
Sum64(name) == FnvWrite(FnvOffset64, name, 1)

\* ---------------------------------------------------------- parseTemperature
\* The result of a call that can panic: err is "" or the panic.
Ok(v)      == [err |-> "", val |-> v]
Panic(why) == [err |-> why, val |-> 0]

parseTemperatureNoTrailingSign(temp) ==
    LET len == Len(temp) IN
    IF len < 3 THEN Panic("index out of range")
    ELSE
        LET n1 == ByteSub(temp[len], ZERO) + ByteSub(temp[len - 2], ZERO) * 10 IN
        IF len > 3 /\ temp[len - 3] = MINUS THEN Ok(-n1)
        ELSE Ok(IF len > 3 THEN n1 + ByteSub(temp[len - 3], ZERO) * 100 ELSE n1)

\* temp[len-1] and temp[len-3] are read first: a field shorter than 3 bytes
\* is an index out of range.
parseTemperature(temp) ==
    LET len == Len(temp) IN
    IF len < 3 THEN Panic("index out of range")
    ELSE
        LET n1 == ByteSub(temp[len], ZERO) + ByteSub(temp[len - 2], ZERO) * 10 IN
        IF len > 3 /\ temp[len - 3] = MINUS THEN Ok(-n1)
        ELSE
            LET n2 == IF len > 3 THEN n1 + ByteSub(temp[len - 3], ZERO) * 100 ELSE n1
            IN  IF len > 4 THEN Ok(-n2) ELSE Ok(n2)

\* ------------------------------------------------------------- measurement
measurement_MergeKeepsMin(m, m1) ==
    [m EXCEPT !.max = IF m1.max > m.max THEN m1.max ELSE m.max,
              !.sum = m.sum + m1.sum,
              !.count = m.count + m1.count]

\* math.Round(float64(num)/float64(den)) for den > 0, as sign and magnitude
\* (math.Round keeps the sign of a negative zero): the magnitude is that of
\* the quotient truncated, plus one when the fraction cut off is at least
\* one half.  The float64 quotient of two integers of less than 2^53 is
\* an exact half when the true quotient is, and on its side of it otherwise.
math_Round(num, den) ==
    LET a == IF num < 0 THEN -num ELSE num
        t == a \div den
    IN  [neg |-> num < 0, abs |-> IF 2 * (a % den) >= den THEN t + 1 ELSE t]

\* measurement.Print: the mean it prints, in tenths
Print_mean(m) == math_Round(m.sum, m.count)

\* the number a sign and a magnitude stand for
Value(x) == IF x.neg THEN -x.abs ELSE x.abs

\* measurement.Merge: m widened by m1
measurement_Merge(m, m1) ==
    [m EXCEPT !.min = IF m1.min < m.min THEN m1.min ELSE m.min,
              !.max = IF m1.max > m.max THEN m1.max ELSE m.max,
              !.sum = m.sum + m1.sum,
              !.count = m.count + m1.count]

\* ---------------------------------------------------------------- namehash
\* the loop body for the bytes tail[k..]: id = id & val
RECURSIVE namehashLoop(_, _, _)
namehashLoop(id, tail, k) ==
    IF k > Len(tail) THEN id
    ELSE LET idx == k - 1
             val == IF idx % 2 = 0 THEN (tail[k] * 256) % Limb ELSE tail[k]
         IN  namehashLoop(AndBits(id, val, 16), tail, k + 1)

namehash(name) ==
    LET l == IF Len(name) < 8 THEN Len(name) ELSE 8
    IN  namehashLoop(0, Slice(name, Len(name) - l, Len(name)), 1)

\* ------------------------------------------------------------------ bucket
\* A bucket is its data slice; a nil *bucket is an index outside the
\* table's DOMAIN (see New).  Index of the first record of data with the
\* hash h, or 0.
RECURSIVE FindHash(_, _, _)
FindHash(data, h, k) ==
    IF k > Len(data) THEN 0
    ELSE IF data[k].hash = h THEN k ELSE FindHash(data, h, k + 1)

\* bucket.Add
bucket_Add(data, m) ==
    LET k == FindHash(data, m.hash, 1) IN
    IF k > 0 THEN [data EXCEPT ![k] = measurement_Merge(data[k], m)]
    ELSE Append(data, m)

\* bucket.AddNew
bucket_AddNew(data, name, temperature) ==
    LET hname == Sum64(name)
        k == FindHash(data, hname, 1)
    IN  IF k > 0
        THEN [data EXCEPT ![k] =
                 [@ EXCEPT !.min = IF temperature < @ THEN temperature ELSE @,
                           !.max = IF temperature > @ THEN temperature ELSE @,
                           !.sum = @ + temperature,
                           !.count = @ + 1]]
        ELSE Append(data, [name |-> name, hash |-> hname, min |-> temperature,
                           max |-> temperature, sum |-> temperature, count |-> 1])

\* ------------------------------------------------------------ measurements
\* math.MaxUint16: the length of the slice New makes
MaxUint16 == 65535

\* New(): a slice of MaxUint16 nil buckets.  The table is the function from
\* the indexes of its non-nil buckets to their data.
New == <<>>

IsNil(mm, h) == h \notin DOMAIN mm

\* measurements.Add (namehash(name) < MaxUint16 is checked by the caller)
measurements_Add(m, name, temperature) ==
    LET id == namehash(name)
        b  == IF IsNil(m, id) THEN <<>> ELSE m[id]
    IN  [h \in DOMAIN m \cup {id} |->
            IF h = id THEN bucket_AddNew(b, name, temperature) ELSE m[h]]

RECURSIVE AddAll(_, _, _)
AddAll(data, ms, k) ==
    IF k > Len(ms) THEN data ELSE AddAll(bucket_Add(data, ms[k]), ms, k + 1)

\* measurements.Merge.  The loop visits every index h of res; where both
\* buckets are nil it changes nothing, so only the non-nil indexes are
\* visited here.  With mm[h] non-nil and res[h] nil, b.data dereferences nil.
measurements_Merge(mm, res) ==
    IF \E h \in DOMAIN mm : IsNil(res, h)
    THEN Panic("nil pointer dereference")
    ELSE Ok([h \in DOMAIN mm \cup DOMAIN res |->
                IF IsNil(mm, h) THEN res[h]
                ELSE AddAll(mm[h], res[h], 1)])

\* measurements.Flatten, as the set of its records without the hash
Flatten(m) ==
    UNION {{[name |-> m[h][k].name, min |-> m[h][k].min, max |-> m[h][k].max,
             sum |-> m[h][k].sum, count |-> m[h][k].count] : k \in 1..Len(m[h])} :
           h \in DOMAIN m}

\* ----------------------------------------------------------------- process
RECURSIVE processLoop(_, _, _, _, _)
processLoop(data, b, i, ns, ne) ==
    IF i >= Len(b) THEN Ok(data)
    ELSE IF b[i + 1] = SEMI THEN processLoop(data, b, i + 1, ns, i)
    ELSE IF b[i + 1] = LF THEN
        IF ns > ne \/ ne + 1 > i THEN Panic("slice bounds out of range")
        ELSE
            LET name == Slice(b, ns, ne)
                t    == parseTemperature(Slice(b, ne + 1, i))
            IN  IF t.err # "" THEN Panic(t.err)
                ELSE IF namehash(name) >= MaxUint16 THEN Panic("index out of range")
                ELSE processLoop(measurements_Add(data, name, t.val), b, i + 1, i + 1, ne)
    ELSE processLoop(data, b, i + 1, ns, ne)

\* process(data, b): a leading line feed is skipped first
process(data, b) ==
    IF Len(b) > 0 /\ b[1] = LF
    THEN processLoop(data, Tail(b), 0, 0, 0)
    ELSE processLoop(data, b, 0, 0, 0)

\* ------------------------------------- the sequential map[string] baseline
\* the index of the first byte c of b at or after the index i (0-based), or
\* Len(b) when there is none
RECURSIVE IndexFrom(_, _, _)
IndexFrom(b, c, i) ==
    IF i >= Len(b) THEN Len(b)
    ELSE IF b[i + 1] = c THEN i ELSE IndexFrom(b, c, i + 1)

\* bufio.Scanner with ScanLines: the lines without their line feed (and
\* without a carriage return before it); a last line without a line feed
\* is a line too
RECURSIVE ScanLines(_)
ScanLines(f) ==
    IF f = <<>> THEN <<>>
    ELSE LET i == IndexFrom(f, LF, 0)
             raw == Slice(f, 0, i)
             line == IF Len(raw) > 0 /\ raw[Len(raw)] = 13
                     THEN Slice(raw, 0, Len(raw) - 1) ELSE raw
         IN  <<line>> \o (IF i >= Len(f) THEN <<>> ELSE ScanLines(Slice(f, i + 1, Len(f))))

\* the loop body of main for the lines k.. of lines: data is the map, a
\* function from the names to their measurement
RECURSIVE baselineLoop(_, _, _)
baselineLoop(m, lines, k) ==
    IF k > Len(lines) THEN Ok(m)
    ELSE
        LET line == lines[k]
            i1 == IndexFrom(line, SEMI, 0)
            i2 == IndexFrom(line, SEMI, i1 + 1)
        IN  IF i1 >= Len(line) THEN Panic("index out of range")
            ELSE
                LET name == Slice(line, 0, i1)
                    t == parseTemperature(Slice(line, i1 + 1, i2))
                IN  IF t.err # "" THEN Panic(t.err)
                    ELSE IF name \notin DOMAIN m
                    THEN baselineLoop(
                            [x \in DOMAIN m \cup {name} |->
                                IF x = name
                                THEN [min |-> t.val, max |-> t.val, sum |-> t.val, count |-> 1]
                                ELSE m[x]],
                            lines, k + 1)
                    ELSE baselineLoop(
                            [m EXCEPT ![name] =
                                [min |-> IF t.val < @.min THEN t.val ELSE @.min,
                                 max |-> IF t.val > @.max THEN t.val ELSE @.max,
                                 sum |-> @.sum + t.val,
                                 count |-> @.count + 1]],
                            lines, k + 1)

\* the map main has built when its scanner loop ends
baseline(f) == baselineLoop(<<>>, ScanLines(f), 1)

\* the map as the set of its entries, in the shape of Flatten
Entries(m) ==
    {[name |-> x, min |-> m[x].min, max |-> m[x].max, sum |-> m[x].sum,
      count |-> m[x].count] : x \in DOMAIN m}

\* ------------------- the single-threaded chunked calculator (part_000)
\* measurement.Add
measurement_Add(m, temperature) ==
    [m EXCEPT !.min = IF temperature < @ THEN temperature ELSE @,
              !.max = IF temperature > @ THEN temperature ELSE @,
              !.sum = @ + temperature,
              !.count = @ + 1]

\* the loop of process: data is the map[uint64]*measurement, a function
\* from the ids, which are the hashes of the names, to the measurements
RECURSIVE part000_processLoop(_, _, _, _, _)
part000_processLoop(m, b, i, nstart, ne) ==
    IF i >= Len(b) THEN Ok(m)
    ELSE IF b[i + 1] = SEMI THEN part000_processLoop(m, b, i + 1, nstart, i)
    ELSE IF b[i + 1] = LF THEN
        IF nstart > ne \/ ne + 1 > i THEN Panic("slice bounds out of range")
        ELSE
            LET name == Slice(b, nstart, ne)
                t    == parseTemperature(Slice(b, ne + 1, i))
                id   == Sum64(name)
            IN  IF t.err # "" THEN Panic(t.err)
                ELSE part000_processLoop(
                        [x \in DOMAIN m \cup {id} |->
                            IF x # id THEN m[x]
                            ELSE IF id \in DOMAIN m THEN measurement_Add(m[id], t.val)
                            ELSE [name |-> name, min |-> t.val, max |-> t.val,
                                  sum |-> t.val, count |-> 1]],
                        b, i + 1, i + 1, ne)
    ELSE part000_processLoop(m, b, i + 1, nstart, ne)

\* process(b): nil, which is a map without entries, for an empty block
part000_process(b) ==
    IF Len(b) = 0 \/ (Len(b) = 1 /\ b[1] = LF) THEN Ok(<<>>)
    ELSE part000_processLoop(<<>>, b, 0, 0, 0)

\* the merge of res into data in collectData
part000_merge(m, res) ==
    [x \in DOMAIN m \cup DOMAIN res |->
        IF x \notin DOMAIN m THEN res[x]
        ELSE IF x \notin DOMAIN res THEN m[x]
        ELSE measurement_Merge(m[x], res[x])]

RECURSIVE FirstLFFrom(_, _, _, _)
FirstLFFrom(b, k, i, dflt) ==
    IF k > i THEN dflt
    ELSE IF b[k + 1] = LF THEN k ELSE FirstLFFrom(b, k + 1, i, dflt)

FirstLF(b, i, dflt) == FirstLFFrom(b, 0, i, dflt)

\* for i := ns; i >= 0; i-- { if b1[i] == '\n' { ns = i; break } }
RECURSIVE LastLF(_, _, _)
LastLF(b, i, dflt) ==
    IF i < 0 THEN dflt
    ELSE IF b[i + 1] = LF THEN i ELSE LastLF(b, i - 1, dflt)

\* collectData(file) for a file of less than blockSize (1 GiB) bytes: the
\* first Read returns the file, the second io.EOF
part000_collectData(f) ==
    IF f = <<>> THEN Ok(<<>>)
    ELSE LET res == part000_process(Slice(f, 0, LastLF(f, Len(f) - 1, Len(f) - 1) + 1))
         IN  IF res.err # "" THEN res ELSE Ok(part000_merge(<<>>, res.val))

\* the map[uint64]*measurement as the set of its entries, in the shape of
\* Flatten
part000_Entries(m) ==
    {[name |-> m[x].name, min |-> m[x].min, max |-> m[x].max, sum |-> m[x].sum,
      count |-> m[x].count] : x \in DOMAIN m}

\* ------------------------------------------------------------------ inputs
KeyA == <<65>>
KeyB == <<66>>

\* "1.0", "-2.5"
Text10  == <<49, DOT, 48>>
TextM25 == <<MINUS, 50, DOT, 53>>

Line(key, text) == key \o <<SEMI>> \o text

\* the records the input files are made of, without their line feed
Records == {Line(KeyA, Text10), Line(KeyB, TextM25)}

\* an input has at most MaxRecords terminated records
MaxRecords == 2

\* a last line without its line feed, or none
Tails == {<<>>, Line(KeyB, Text10)}

RECURSIVE Concat(_)
Concat(ss) == IF ss = <<>> THEN <<>> ELSE Head(ss) \o Concat(Tail(ss))

Terminated(rs) == Concat([k \in 1..Len(rs) |-> rs[k] \o <<LF>>])

RecordSeqs == UNION {[1..k -> Records] : k \in 0..MaxRecords}

Files == {Terminated(rs) \o t : rs \in RecordSeqs, t \in Tails}

\* the block sizes collectData is called with (main passes 1 GiB)
BlockSizes == {4, 32}

\* collectData is called with 0..MaxWorkers workers
MaxWorkers == 2

\* the reader returns fewer bytes than asked for at most MaxShortReads times
MaxShortReads == 1

Min(a, b) == IF a < b THEN a ELSE b

\* two keys with the same 64-bit FNV-1a hash: "Sfvth4hqd0A", "qFnCvf8D5lL"
KeyS == <<83, 102, 118, 116, 104, 52, 104, 113, 100, 48, 65>>
KeyQ == <<113, 70, 110, 67, 118, 102, 56, 68, 53, 108, 76>>

\* ------------------------------------------- the calls of parseTemperature
VARIABLES
    tenths,         \* the value whose text is parsed, in tenths
    temp,           \* the text handed to parseTemperature
    parsed          \* <<>> or the result of the call

\* -------------------------------------------- the tables, used on their own
VARIABLES
    tabs,           \* the tables A, B and C
    live,           \* the table was not yet merged into another one
    mergedInto,     \* the table had another one merged into it
    adds            \* history: the records added to the table, in order

aux == <<tenths, temp, parsed, tabs, live, mergedInto, adds>>

TableIds == {"A", "B", "C"}

\* the state of the variables of a part of the model that is not running
NoParse == tenths = 0 /\ temp = <<>> /\ parsed = <<>>

NoTables ==
    /\ tabs = [t \in TableIds |-> New]
    /\ live = [t \in TableIds |-> TRUE]
    /\ mergedInto = [t \in TableIds |-> FALSE]
    /\ adds = [t \in TableIds |-> <<>>]

\* ------------------------------------------------------------- collectData
VARIABLES
    file,           \* the bytes of the input file
    pos,            \* the bytes the reader has returned so far
    shortReads,     \* history: the reads that returned less than asked for
    err,            \* the err of the last file.Read: "" is nil
    blockSize,      \* collectData's blockSize
    parallellism,   \* collectData's parallellism
    pc,             \* where collectData is
    offset,         \* collectData's offset
    b1,             \* b1[0:offset+n], the bytes of b1 written so far
    ns,             \* the loop body's ns, once the block is scanned
    inputs,         \* the inputs channel is closed
    results,        \* the values buffered in the results channel
    resultsClosed,  \* the results channel is closed
    done,           \* the done channel is closed
    wg,             \* the WaitGroup's counter
    workers,        \* the processBlocks goroutines: a bag of their states
    data,           \* collectData's data, which collect merges into
    merged,         \* history: the number of tables collect has merged
    chunks,         \* history: the chunks sent on inputs, in order
    panicked        \* "" or the panic that ended the process

vars == <<aux, file, pos, shortReads, err, blockSize, parallellism, pc, offset, b1, ns, inputs,
          results, resultsClosed, done, wg, workers, data,
          merged, chunks, panicked>>

\* A processBlocks goroutine is where it is (pc), its data and its input.
\* The goroutines have no identity in the code, so they are kept as a bag.
Worker(wpc, wdata, winput) == [pc |-> wpc, data |-> wdata, input |-> winput]

One(w) == SetToBag({w})

SpawnOneMore(k) == [w \in {Worker("range", New, <<>>)} |-> k + 1]

\* lines 87-90: parallellism goroutines, each at its range with data = New()
Spawn(k) == IF k = 0 THEN EmptyBag ELSE [w \in {Worker("range", New, <<>>)} |-> k]

\* the goroutine in the state w moves to the state v
Step(w, v) == (workers (-) One(w)) (+) One(v)

\* collectData(f, bs, par) up to its loop, lines 82-99: the workers and the
\* collector are started
Start(f, bs, par) ==
    /\ file = f
    /\ blockSize = bs
    /\ parallellism = par
    /\ pos = 0
    /\ shortReads = 0
    /\ err = ""
    /\ pc = "read"
    /\ offset = 0
    /\ b1 = <<>>
    /\ ns = 0
    /\ inputs = FALSE
    /\ results = <<>>
    /\ resultsClosed = FALSE
    /\ done = FALSE
    /\ wg = par
    /\ workers = Spawn(par)
    /\ data = New
    /\ merged = 0
    /\ chunks = <<>>
    /\ panicked = ""

Init ==
    /\ NoParse /\ NoTables
    /\ \E f \in Files, bs \in BlockSizes, par \in 0..MaxWorkers : Start(f, bs, par)

\* file.Read(b1[offset:]) of an *os.File returns 1..len bytes while bytes
\* remain (0 for an empty buffer), and 0 with io.EOF at the end.
ReadLengths ==
    LET full == Min(blockSize - offset, Len(file) - pos) IN
    IF blockSize - offset = 0 THEN {0}
    ELSE IF shortReads < MaxShortReads THEN 1..full ELSE {full}

\* lines 102-117: a read that returns bytes, and the scan for the last line feed
Read ==
    /\ panicked = "" /\ pc = "read"
    /\ pos < Len(file) \/ blockSize - offset = 0
    /\ \E n \in ReadLengths :
        LET b == b1 \o Slice(file, pos, pos + n) IN
        /\ b1' = b
        /\ pos' = pos + n
        /\ shortReads' = IF n < Min(blockSize - offset, Len(file) - pos)
                         THEN shortReads + 1 ELSE shortReads
        /\ ns' = LastLF(b, offset + n - 1, offset + n - 1)
    /\ err' = ""
    /\ pc' = "send"
    /\ UNCHANGED <<aux, file, blockSize, parallellism, offset, inputs, results,
                   resultsClosed, done, wg, workers, data, merged,
                   chunks, panicked>>

\* io.EOF, and an error of the reader that is not io.EOF
EOF == "EOF"
ErrRead == "read error"

NeverFatal(e) == FALSE

\* line 104: !errors.Is(err, io.EOF)
Fatal(e) == e # EOF

\* lines 102-108: file.Read returns the error e: collectData panics with
\* it, or breaks the loop
ReadFails(e) ==
    /\ err' = e
    /\ IF Fatal(e)
       THEN panicked' = e /\ UNCHANGED pc
       ELSE pc' = "close" /\ UNCHANGED panicked
    /\ UNCHANGED <<aux, file, pos, shortReads, blockSize, parallellism, offset, b1, ns,
                   inputs, results, resultsClosed, done, wg, workers, data,
                   merged, chunks>>

\* the read at the end of the file returns io.EOF
ReadEOF ==
    /\ panicked = "" /\ pc = "read"
    /\ pos = Len(file) /\ blockSize - offset > 0
    /\ ReadFails(EOF)

\* a read fails, wherever the reader is in the file
ReadError ==
    /\ panicked = "" /\ pc = "read"
    /\ blockSize - offset > 0
    /\ ReadFails(ErrRead)

\* lines 120-125 and 147: inputs is unbuffered, so the send of b1[:ns+1]
\* completes when a worker receives it; collectData then carries the rest
\* of the block over to a new b1.
Send(w) ==
    /\ panicked = "" /\ pc = "send" /\ w.pc = "range"
    /\ workers' = Step(w, Worker("process", w.data, Slice(b1, 0, ns + 1)))
    /\ chunks' = Append(chunks, Slice(b1, 0, ns + 1))
    /\ b1' = Slice(b1, ns + 1, Len(b1))
    /\ offset' = Len(b1) - (ns + 1)
    /\ ns' = 0
    /\ pc' = "read"
    /\ UNCHANGED <<aux, file, err, pos, shortReads, blockSize, parallellism, inputs,
                   results, resultsClosed, done, wg, data, merged, panicked>>

\* line 127
CloseInputs ==
    /\ panicked = "" /\ pc = "close"
    /\ inputs' = TRUE
    /\ pc' = "wait"
    /\ UNCHANGED <<aux, file, err, pos, shortReads, blockSize, parallellism, offset, b1, ns, results,
                   resultsClosed, done, wg, workers, data, merged,
                   chunks, panicked>>

WaitReturnsAtOnce == TRUE

\* wg.Wait() returns
WaitReturns == wg = 0

\* lines 130-131
Wait ==
    /\ panicked = "" /\ pc = "wait" /\ WaitReturns
    /\ resultsClosed' = TRUE
    /\ pc' = "done"
    /\ UNCHANGED <<aux, file, err, pos, shortReads, blockSize, parallellism, offset, b1, ns, inputs,
                   results, done, wg, workers, data, merged, chunks,
                   panicked>>

\* lines 133-134
Return ==
    /\ panicked = "" /\ pc = "done" /\ done
    /\ pc' = "returned"
    /\ UNCHANGED <<aux, file, err, pos, shortReads, blockSize, parallellism, offset, b1, ns, inputs,
                   results, resultsClosed, done, wg, workers, data,
                   merged, chunks, panicked>>

\* --------------------------------------------------------- processBlocks
WorkerSkipsChunk(w) ==
    /\ panicked = "" /\ w.pc = "process"
    /\ workers' = Step(w, Worker("range", w.data, <<>>))
    /\ UNCHANGED <<aux, file, err, pos, shortReads, blockSize, parallellism, pc, offset,
                   b1, ns, inputs, results, resultsClosed, done, wg, data,
                   merged, chunks, panicked>>

\* line 148
WorkerProcess(w) ==
    /\ panicked = "" /\ w.pc = "process"
    /\ LET r == process(w.data, w.input) IN
        IF r.err # ""
        THEN /\ panicked' = r.err
             /\ UNCHANGED workers
        ELSE /\ workers' = Step(w, Worker("range", r.val, <<>>))
             /\ UNCHANGED panicked
    /\ UNCHANGED <<aux, file, err, pos, shortReads, blockSize, parallellism, pc, offset,
                   b1, ns, inputs, results, resultsClosed, done, wg, data,
                   merged, chunks>>

AfterSendKeepsData(w) == Worker("wgdone", w.data, <<>>)

\* lines 150-152: after the send the goroutine is at wg.Done() and does not
\* refer to data again, so its state no longer holds the table
AfterSend(w) == Worker("wgdone", New, <<>>)

\* lines 147 and 150: the range over the closed inputs ends, and data is
\* sent on results, which has room for one value.
WorkerSend(w) ==
    /\ panicked = "" /\ w.pc = "range" /\ inputs
    /\ IF resultsClosed
       THEN /\ panicked' = "send on closed channel"
            /\ UNCHANGED <<results, workers>>
       ELSE /\ Len(results) < 1
            /\ results' = Append(results, w.data)
            /\ workers' = Step(w, AfterSend(w))
            /\ UNCHANGED panicked
    /\ UNCHANGED <<aux, file, err, pos, shortReads, blockSize, parallellism, pc, offset,
                   b1, ns, inputs, resultsClosed, done, wg, data, merged,
                   chunks>>

\* line 151
WorkerDone(w) ==
    /\ panicked = "" /\ w.pc = "wgdone"
    /\ wg' = wg - 1
    /\ workers' = Step(w, Worker("exit", New, <<>>))
    /\ UNCHANGED <<aux, file, err, pos, shortReads, blockSize, parallellism, pc, offset,
                   b1, ns, inputs, results, resultsClosed, done, data, merged,
                   chunks, panicked>>

\* ----------------------------------------------------------------- collect
\* lines 138-139: one value is received and merged
Collect ==
    /\ panicked = "" /\ ~done /\ results # <<>>
    /\ LET r == measurements_Merge(data, Head(results)) IN
        IF r.err # ""
        THEN /\ panicked' = r.err
             /\ UNCHANGED <<data, merged>>
        ELSE /\ data' = r.val
             /\ merged' = merged + 1
             /\ UNCHANGED panicked
    /\ results' = Tail(results)
    /\ UNCHANGED <<aux, file, err, pos, shortReads, blockSize, parallellism, pc, offset, b1, ns,
                   inputs, resultsClosed, done, wg, workers, chunks>>

\* lines 138 and 141: the range over the closed, drained results ends
CollectEnd ==
    /\ panicked = "" /\ ~done /\ results = <<>> /\ resultsClosed
    /\ done' = TRUE
    /\ UNCHANGED <<aux, file, err, pos, shortReads, blockSize, parallellism, pc, offset, b1, ns,
                   inputs, results, resultsClosed, wg, workers,
                   data, merged, chunks, panicked>>

Next ==
    \/ Read
    \/ ReadEOF
    \/ ReadError
    \/ \E w \in BagToSet(workers) : Send(w)
    \/ CloseInputs
    \/ Wait
    \/ Return
    \/ \E w \in BagToSet(workers) : WorkerProcess(w)
    \/ \E w \in BagToSet(workers) : WorkerSend(w)
    \/ \E w \in BagToSet(workers) : WorkerDone(w)
    \/ Collect
    \/ CollectEnd

Spec == Init /\ [][Next]_vars

\* ------------------------------------------------- parseTemperature alone
\* the values of the format -?\d{1,2}\.\d, in tenths
MaxTenths == 10 * 10 * 10 - 1

Digit(d) == ZERO + d

\* the text of t/10: an optional '-', one or two integer digits, '.', and
\* one fractional digit
Encode(t) ==
    LET a == IF t < 0 THEN -t ELSE t
        int == a \div 10
    IN  (IF t < 0 THEN <<MINUS>> ELSE <<>>)
        \o (IF int >= 10 THEN <<Digit(int \div 10), Digit(int % 10)>> ELSE <<Digit(int)>>)
        \o <<DOT, Digit(a % 10)>>

\* "-0.0" is a text of 0 too
Texts(t) == IF t = 0 THEN {Encode(0), <<MINUS>> \o Encode(0)} ELSE {Encode(t)}

InitParse ==
    /\ tenths \in (-MaxTenths)..MaxTenths
    /\ temp \in Texts(tenths)
    /\ parsed = <<>>
    /\ NoTables
    /\ Start(<<>>, 1, 0)

ParseTemperature ==
    /\ parsed = <<>>
    /\ parsed' = <<parseTemperature(temp)>>
    /\ UNCHANGED <<tenths, temp, tabs, live, mergedInto, adds, file, err,
                   pos, shortReads, blockSize, parallellism, pc, offset, b1, ns,
                   inputs, results, resultsClosed, done, wg, workers, data,
                   merged, chunks, panicked>>

SpecParse == InitParse /\ [][ParseTemperature]_vars

\* ------------------------------------------------------- the tables alone
\* the keys and the temperatures of the records added to the tables
TableKeys == {KeyA, KeyS, KeyQ}
TableTemps == {10, -25}

\* at most MaxAdds records are added to the tables
MaxAdds == 3

RECURSIVE SumLen(_, _)
SumLen(f, S) ==
    IF S = {} THEN 0
    ELSE LET x == CHOOSE y \in S : TRUE IN Len(f[x]) + SumLen(f, S \ {x})

InitTables ==
    /\ NoTables
    /\ NoParse
    /\ Start(<<>>, 1, 0)

\* tabs[t].Add(name, temperature)
TableAdd(t, name, temperature) ==
    /\ panicked = "" /\ live[t]
    /\ SumLen(adds, TableIds) < MaxAdds
    /\ tabs' = [tabs EXCEPT ![t] = measurements_Add(@, name, temperature)]
    /\ adds' = [adds EXCEPT ![t] = Append(@, <<name, temperature>>)]
    /\ UNCHANGED <<live, mergedInto, tenths, temp, parsed, file, err, pos,
                   shortReads, blockSize, parallellism, pc, offset, b1, ns,
                   inputs, results, resultsClosed, done, wg, workers, data,
                   merged, chunks, panicked>>

\* tabs[t].Merge(tabs[u]).  Merge makes tabs[t] share the buckets and the
\* records of tabs[u], so tabs[u] is not used again, as in collect.
TableMerge(t, u) ==
    /\ panicked = "" /\ t # u /\ live[t] /\ live[u]
    /\ LET r == measurements_Merge(tabs[t], tabs[u]) IN
        IF r.err # ""
        THEN /\ panicked' = r.err
             /\ UNCHANGED <<tabs, live, mergedInto, adds>>
        ELSE /\ tabs' = [tabs EXCEPT ![t] = r.val, ![u] = New]
             /\ live' = [live EXCEPT ![u] = FALSE]
             /\ mergedInto' = [mergedInto EXCEPT ![t] = TRUE]
             /\ adds' = [adds EXCEPT ![t] = @ \o adds[u], ![u] = <<>>]
             /\ UNCHANGED panicked
    /\ UNCHANGED <<tenths, temp, parsed, file, err, pos, shortReads, blockSize,
                   parallellism, pc, offset, b1, ns, inputs, results,
                   resultsClosed, done, wg, workers, data, merged, chunks>>

NextTables ==
    \/ \E t \in TableIds, name \in TableKeys, temperature \in TableTemps :
          TableAdd(t, name, temperature)
    \/ \E t \in TableIds, u \in TableIds : TableMerge(t, u)

SpecTables == InitTables /\ [][NextTables]_vars

\* ============================================================== properties
\* the input is well formed: every line is a record with its line feed
WellFormed(f) == f = <<>> \/ f[Len(f)] = LF

\* C1: whenever collectData returns on a well-formed input, its table is
\* the table of the run that reads the whole input as one block with one
\* worker, whatever the block size, the read lengths, the number of workers,
\* the worker each chunk went to and the order the tables were merged in.
C1_SameTableInEveryRun ==
    (pc = "returned" /\ WellFormed(file))
        => Flatten(data) = Flatten(process(New, file).val)

\* C2: whenever collectData returns on a well-formed input, its table has
\* one entry for each key of the input, with the minimum, the maximum, the
\* sum and the number of the key's values: the entries of the map the
\* sequential map[string] baseline builds, and of the map the
\* single-threaded chunked collectData returns.
C2_TableIsTheBaseline ==
    (pc = "returned" /\ WellFormed(file))
        => /\ Flatten(data) = Entries(baseline(file).val)
           /\ Flatten(data) = part000_Entries(part000_collectData(file).val)

\* C3: merging an empty table into a table completes and leaves the table
\* as it was.
C3_MergeEmptyIsIdentity ==
    [][\A t \in TableIds, u \in TableIds :
          (TableMerge(t, u) /\ DOMAIN tabs[u] = {})
              => (panicked' = "" /\ tabs'[t] = tabs[t])]_vars

\* the number of the records of h with the key name
RECURSIVE CountKey(_, _)
CountKey(h, name) ==
    IF h = <<>> THEN 0
    ELSE (IF Head(h)[1] = name THEN 1 ELSE 0) + CountKey(Tail(h), name)

\* C4: in every table, an entry aggregates only the records whose key is
\* the entry's name, and every key added has its own entry, also when two
\* keys have the same hash.
C4_EntriesOnlyAggregateTheirKey ==
    \A t \in TableIds :
        /\ \A e \in Flatten(tabs[t]) : e.count = CountKey(adds[t], e.name)
        /\ \A k \in 1..Len(adds[t]) :
              \E e \in Flatten(tabs[t]) : e.name = adds[t][k][1]

\* the bytes of the first k chunks
SentBytes(k) == Concat(SubSeq(chunks, 1, k))

\* C5: every chunk sent to the workers ends at a line feed, except the
\* chunk that ends the input when the last line of the input has no line
\* feed.
C5_ChunksEndAtLineFeed ==
    \A k \in 1..Len(chunks) :
        \/ chunks[k] # <<>> /\ chunks[k][Len(chunks[k])] = LF
        \/ ~WellFormed(file) /\ Len(SentBytes(k)) = Len(file)

\* C6: once the work queue is closed, the chunks sent, in order, are the
\* input, byte for byte.
C6_ChunksAreTheInput == inputs => SentBytes(Len(chunks)) = file

\* C7: on a well-formed input no goroutine panics (a panic with an error of
\* the reader apart).
C7_NoPanicOnWellFormedInput == WellFormed(file) => panicked \in {"", ErrRead}

\* C8: done is closed, and collectData returns, only after the work queue
\* is closed, every worker has delivered its table and left, and the
\* collector has merged exactly one table for each worker, with none left in
\* the results channel.
C8_DoneAfterAllTablesMerged ==
    /\ pc = "returned" => done
    /\ done =>
        /\ inputs /\ resultsClosed /\ wg = 0
        /\ merged = parallellism
        /\ results = <<>>
        /\ \A w \in BagToSet(workers) : w.pc = "exit"

C8_Witness ==
    /\ pc = "returned" /\ parallellism >= 2 /\ merged = parallellism
    /\ Len(chunks) >= 2 /\ Cardinality(Flatten(data)) >= 2

\* the three tables are tables built by Add alone, each with a record
BuiltByAdd ==
    \A t \in TableIds : live[t] /\ ~mergedInto[t] /\ adds[t] # <<>>

\* acc.Merge(x) on results that can be a panic
MergeR(acc, x) ==
    IF acc.err # "" THEN acc
    ELSE IF x.err # "" THEN x
    ELSE measurements_Merge(acc.val, x.val)

Orders ==
    {o \in [1..3 -> TableIds] : \A i, j \in 1..3 : i # j => o[i] # o[j]}

\* the tables merged into an empty accumulator one after the other, and
\* with the first two, or the last two, merged with each other first
MergeFlat(o) ==
    MergeR(MergeR(MergeR(Ok(New), Ok(tabs[o[1]])), Ok(tabs[o[2]])), Ok(tabs[o[3]]))
MergeLeft(o) ==
    MergeR(MergeR(Ok(New), MergeR(Ok(tabs[o[1]]), Ok(tabs[o[2]]))), Ok(tabs[o[3]]))
MergeRight(o) ==
    MergeR(MergeR(Ok(New), Ok(tabs[o[1]])), MergeR(Ok(tabs[o[2]]), Ok(tabs[o[3]])))

\* C9: for tables A, B and C built by Add, every order and every grouping
\* of their merges into an empty accumulator completes with the same
\* entries.
C9_MergeCommutesAndAssociates ==
    BuiltByAdd =>
        \A o \in Orders :
            \A r \in {MergeFlat(o), MergeLeft(o), MergeRight(o)} :
                /\ r.err = ""
                /\ Flatten(r.val) = Flatten(MergeFlat(<<"A", "B", "C">>).val)

\* C10: parsing the text of t/10 returns t, for every t of -999..999.
C10_ParseInvertsEncode == parsed # <<>> => parsed = <<Ok(tenths)>>

C10_Witness ==
    /\ temp = <<MINUS, 49, 50, DOT, 51>>
    /\ parsed = <<Ok(-123)>>

\* the goroutines of processBlocks that are at one of the places pcs
WorkersAt(pcs) ==
    LET S == {w \in BagToSet(workers) : w.pc \in pcs}
    IN  IF S = {} THEN 0 ELSE BagCardinality([w \in S |-> workers[w]])

\* C11: no table is used by two goroutines at a time.  Each of the
\* parallellism worker tables is at one place: with its worker, which is in
\* its range loop, or in the results channel, or merged by the collector; a
\* worker past its send holds no table and no chunk; collectData returns
\* the accumulator only after done is closed, when the collector has
\* nothing left to merge.
C11_EachTableHasOneOwner ==
    /\ \A w \in BagToSet(workers) :
          w.pc \in {"wgdone", "exit"} => (w.data = New /\ w.input = <<>>)
    /\ panicked = "" =>
          WorkersAt({"range", "process"}) + Len(results) + merged = parallellism
    /\ pc = "returned" => done
    /\ done => (results = <<>> /\ resultsClosed)

\* a worker still parses a chunk into its table while the table of another
\* is already merged into the accumulator
C11_Witness ==
    /\ parallellism = 2 /\ merged = 1 /\ DOMAIN data # {}
    /\ \E w \in BagToSet(workers) : w.pc = "process" /\ w.input # <<>>

\* C12: a read that fails with an error other than the end of the stream
\* aborts the computation: collectData panics with the error at its read,
\* and never closes the work queue, waits or returns a table, whatever
\* chunks were processed before; the loop ends, and collectData goes on to
\* return, only with the end of the stream.
C12_ReadErrorAborts ==
    /\ err \notin {"", EOF} => (panicked = err /\ pc = "read" /\ ~inputs /\ ~done)
    /\ pc \in {"close", "wait", "done", "returned"} => (err = EOF /\ pos = Len(file))

\* the read fails after a chunk was sent and parsed into a worker's table
C12_Witness ==
    /\ panicked = ErrRead /\ chunks # <<>> /\ pos < Len(file)
    /\ \E w \in BagToSet(workers) : w.pc = "range" /\ DOMAIN w.data # {}

\* the terminated records of f: f up to its last line feed
TerminatedPart(f) == Slice(f, 0, LastLF(f, Len(f) - 1, -1) + 1)

\* C13: on an input of well-formed terminated records followed by a last
\* line without a line feed, no goroutine panics, and when collectData
\* returns, the entries of the keys of the terminated records are those of
\* the terminated records alone.
C13_UnterminatedLastLineIsHarmless ==
    ~WellFormed(file) =>
        /\ panicked \in {"", ErrRead}
        /\ pc = "returned" =>
              \A e \in Entries(baseline(TerminatedPart(file)).val) : e \in Flatten(data)

\* every table there is: the accumulator, the workers' and those in results
AllTables ==
    {data} \cup {w.data : w \in BagToSet(workers)}
           \cup {results[k] : k \in 1..Len(results)}

\* C14: on a well-formed input no table ever has an entry with the empty
\* key; every entry has a key of the input, and covers no more than the
\* values the input has for that key.
C14_NoPhantomEmptyKey ==
    WellFormed(file) =>
        LET m == baseline(file).val IN
        \A t \in AllTables : \A e \in Flatten(t) :
            /\ e.name # <<>>
            /\ e.name \in DOMAIN m
            /\ m[e.name].min <= e.min /\ e.max <= m[e.name].max
            /\ e.count <= m[e.name].count

\* the blocks in flight: b1, which collectData fills or has filled, and the
\* chunks the workers are parsing
InFlight == 1 + WorkersAt({"process"})

\* C15: at most parallellism + 1 blocks are in flight: the send on the
\* unbuffered inputs completes only when a worker takes the chunk, and the
\* next block is made after it.
C15_BlocksInFlightAreBounded == InFlight <= parallellism + 1

\* a block is filled and waits for its send while every worker parses one
C15_Witness ==
    /\ parallellism = 2 /\ InFlight = 3
    /\ pc = "send" /\ b1 # <<>> /\ Len(chunks) = 2

\* the hashes of the keys added to the tables
KeyHash == [name \in TableKeys |-> Sum64(name)]

\* the values of the records of h whose key has the hash hname, in order
RECURSIVE Contributed(_, _)
Contributed(h, hname) ==
    IF h = <<>> THEN <<>>
    ELSE (IF KeyHash[Head(h)[1]] = hname THEN <<Head(h)[2]>> ELSE <<>>)
         \o Contributed(Tail(h), hname)

RECURSIVE SumOf(_)
SumOf(vs) == IF vs = <<>> THEN 0 ELSE Head(vs) + SumOf(Tail(vs))

\* C16: every entry of every table has count >= 1, min <= max and
\* count*min <= sum <= count*max; its min is the smallest and its max the
\* largest of the values contributed to it, its sum their sum and its count
\* their number.  The values contributed to an entry are those of the
\* records added, to the table or to a table merged into it, under the
\* entry's hash.
C16_EntriesSummariseTheirValues ==
    \A t \in TableIds : \A h \in DOMAIN tabs[t] : \A k \in 1..Len(tabs[t][h]) :
        LET d  == tabs[t][h][k]
            vs == Contributed(adds[t], d.hash)
        IN  /\ d.count >= 1 /\ d.min <= d.max
            /\ d.count * d.min <= d.sum /\ d.sum <= d.count * d.max
            /\ d.count = Len(vs) /\ d.sum = SumOf(vs)
            /\ \A i \in 1..Len(vs) : d.min <= vs[i] /\ vs[i] <= d.max
            /\ \E i \in 1..Len(vs) : d.min = vs[i]
            /\ \E i \in 1..Len(vs) : d.max = vs[i]

\* an entry of a table that had another merged into it, with three values
C16_Witness ==
    \E t \in TableIds :
        /\ mergedInto[t] /\ DOMAIN tabs[t] # {}
        /\ \E h \in DOMAIN tabs[t] : \E k \in 1..Len(tabs[t][h]) :
              /\ tabs[t][h][k].count = 3
              /\ tabs[t][h][k].min = -25 /\ tabs[t][h][k].max = 10

Abs(x) == IF x < 0 THEN -x ELSE x

\* sum/count rounded to the nearest integer, an exact half away from zero:
\* an integer at most one half away from sum/count, the one of the larger
\* magnitude when there are two
Nearest(sum, count) ==
    LET near(r) == 2 * Abs(r * count - sum) <= count
    IN  CHOOSE r \in (-MaxTenths)..MaxTenths :
            near(r) /\ \A q \in (-MaxTenths)..MaxTenths : near(q) => Abs(q) <= Abs(r)

\* the keys of the entries e with the means printed for them
Means(es) == {<<e.name, Value(Print_mean(e))>> : e \in es}

\* C17: the mean printed for an entry is sum/count rounded to the nearest
\* integer of tenths, an exact half away from zero, in every table; so on
\* a well-formed input the means of the table collectData returns are
\* those of the baseline, whatever the number of workers and the block
\* size.
C17_MeanIsRoundedSumOverCount ==
    /\ \A t \in AllTables : \A e \in Flatten(t) :
          Value(Print_mean(e)) = Nearest(e.sum, e.count)
    /\ (pc = "returned" /\ WellFormed(file)) =>
          Means(Flatten(data)) = Means(Entries(baseline(file).val))

\* C18: collectData never gets stuck: as long as it has not returned, and
\* no goroutine has panicked, some goroutine can take a step, for every
\* input and every number of workers from 0 on.
C18_NeverStuck == (panicked = "" /\ pc # "returned") => ENABLED Next

\* the sum of the values of the function f
RECURSIVE SumFn(_)
SumFn(f) ==
    IF DOMAIN f = {} THEN 0
    ELSE LET x == CHOOSE y \in DOMAIN f : TRUE
         IN  f[x] + SumFn([y \in DOMAIN f \ {x} |-> f[y]])

\* the number of the records added to the table t
Added(t) == LET es == Flatten(t) IN SumFn([e \in es |-> e.count])

\* the number of the records process adds for the chunk c
RecordsIn(c) == LET r == process(New, c) IN IF r.err # "" THEN 0 ELSE Added(r.val)

\* the number of the records added to the tables there are, each table
\* counted once
AddedInAll ==
    Added(data) + SumFn([k \in 1..Len(results) |-> Added(results[k])])
                + SumFn([w \in BagToSet(workers) |-> workers[w] * Added(w.data)])

\* the records of the chunks that workers hold and have not parsed yet
Pending ==
    SumFn([w \in {v \in BagToSet(workers) : v.pc = "process"} |->
              workers[w] * RecordsIn(w.input)])

\* C19: nothing is sent on a closed channel, and every chunk is consumed
\* once: inputs is closed only after the last send of a chunk, results only
\* after every worker has sent its table and called wg.Done; the records
\* in the tables are those of the chunks sent, each once, but for the
\* chunks that workers are still parsing; a worker that has delivered its
\* table holds no chunk, and once done is closed the accumulator has the
\* records of every chunk sent.
C19_ChunksAreConsumedOnce ==
    /\ panicked # "send on closed channel"
    /\ inputs => pc \notin {"read", "send"}
    /\ resultsClosed => (wg = 0 /\ \A w \in BagToSet(workers) : w.pc = "exit")
    /\ \A w \in BagToSet(workers) : w.pc \in {"wgdone", "exit"} => w.input = <<>>
    /\ panicked = "" =>
          AddedInAll + Pending = SumFn([k \in 1..Len(chunks) |-> RecordsIn(chunks[k])])
    /\ done => Added(data) = SumFn([k \in 1..Len(chunks) |-> RecordsIn(chunks[k])])

\* collectData returns a table with the records of two chunks, with two
\* workers
C19_Witness ==
    /\ pc = "returned" /\ parallellism = 2 /\ merged = 2 /\ Len(chunks) = 2
    /\ \A k \in 1..2 : RecordsIn(chunks[k]) = 1
    /\ Added(data) = 2

\* C20: at the start of every iteration of the loop of collectData,
\* 0 <= offset < blockSize, and b1[0:offset] holds the bytes of the input
\* that follow the last chunk sent, up to where the reader is, with no line
\* feed among them; when a block is sent, the part sent b1[:ns+1] and the
\* part carried over b1[ns+1:offset+n] are two ranges of the block that
\* meet at ns+1 and together make the bytes read into it.
C20_CarryIsTheUnsentInput ==
    /\ pc = "read" =>
          /\ 0 <= offset /\ offset < blockSize
          /\ offset = Len(b1)
          /\ b1 = Slice(file, Len(SentBytes(Len(chunks))), pos)
          /\ \A k \in 1..Len(b1) : b1[k] # LF
    /\ pc = "send" =>
          /\ 0 <= ns + 1 /\ ns + 1 <= Len(b1) /\ Len(b1) <= blockSize
          /\ SentBytes(Len(chunks)) \o b1 = Slice(file, 0, pos)

\* a chunk was sent, and a part of the next record is carried over
C20_Witness ==
    /\ pc = "read" /\ chunks # <<>> /\ chunks[Len(chunks)][Len(chunks[Len(chunks)])] = LF
    /\ offset = 2 /\ b1 = <<66, SEMI>>

====
